---- MODULE Spec2Model ----
(***************************************************************************)
(* A model of postprocess.py: the time-error scanner (find_time_errors),   *)
(* the map renderer (overlayGPX) and the per-file pipeline of main.        *)
(* Spec is a run of main; SpecScan is one call of find_time_errors on any *)
(* track structure within the bounds.                                      *)
(*                                                                         *)
(* Python values are encoded so that == is TLA+ equality:                  *)
(*   a timestamp is <<"datetime", n>> or <<"NoneType", 0>>,                  *)
(*   the integer -1 of line 55 is <<"int", -1>>,                             *)
(*   a string is the sequence of its character codes.                      *)
(* Python list indices are 0-based; element i of a list is s[i+1] here.    *)
(***************************************************************************)
EXTENDS Integers, Sequences, FiniteSets, TLC

VARIABLES
    argc,      \* len(argv) of the run of main
    listing,   \* os.listdir(indir): the names in on-disk listing order
    mp4,       \* the list main iterates over (lines 99-105)
    idx,       \* 1-based position of the for loop of line 112 in mp4
    pc,        \* position of the control flow
    gpx0,      \* the track structure as handed to the function / as parsed
    gpx,       \* the track structure, mutated in place
    remove,    \* the remove argument of find_time_errors
    stdout,    \* what the latest call of find_time_errors printed
    map_obj,   \* the value returned by the latest overlayGPX
    outdir,    \* the HTML files of the output directory
    trace,     \* the stages main has started, in order
    err        \* the exception that ended the run, "none" if none

vars == <<argc, listing, mp4, idx, pc, gpx0, gpx, remove, stdout, map_obj,
          outdir, trace, err>>

----------------------------------------------------------------------------
(* Bounds of the model *)

\* most points in one track structure
MaxPts == 4
\* most segments in one track structure
MaxSegs == 2
\* most tracks in one track structure
MaxTrks == 2
\* datetime values are 0..MaxTime
MaxTime == 1
\* most names in the input directory
MaxFiles == 3

----------------------------------------------------------------------------
(* Python values *)

None == <<"NoneType", 0>>
DateTime(n) == <<"datetime", n>>
TimeVals == {None} \cup {DateTime(n) : n \in 0..MaxTime}

\* variant of Sentinel: last_time starts as None
Sentinel_None == None
\* last_time = -1 (line 55)
Sentinel == <<"int", -1>>

RECURSIVE SumTo(_, _)
SumTo(f, n) == IF n = 0 THEN 0 ELSE f[n] + SumTo(f, n - 1)

\* variant of Reverse: the indices stay in ascending order
Reverse_Identity(s) == s
\* list.reverse() (line 65)
Reverse(s) == [k \in 1..Len(s) |-> s[Len(s) + 1 - k]]

RECURSIVE Flatten(_)
\* the concatenation of a sequence of sequences, in order
Flatten(ss) == IF ss = <<>> THEN <<>> ELSE Head(ss) \o Flatten(Tail(ss))

----------------------------------------------------------------------------
(* Track structures: a gpx is a sequence of tracks, a track a sequence of  *)
(* segments, a segment a sequence of points.  A point carries its          *)
(* timestamp and its coordinates; the latitude of the k-th point of an     *)
(* input is k, which tells the points of one input apart.                  *)

Point(t, k) == [time |-> t, latitude |-> k, longitude |-> 0 - k]

\* sequences of n naturals whose sum is at most max
Compositions(n, max) == {f \in [1..n -> 0..max] : SumTo(f, n) <= max}

\* the track structure with sc[t] segments in track t, lens[k] points in
\* the k-th segment overall and times[j] the timestamp of the j-th point
MakeGpx(sc, lens, times) ==
    [t \in 1..Len(sc) |->
        [s \in 1..sc[t] |->
            LET k == SumTo(sc, t - 1) + s
                off == SumTo(lens, k - 1)
            IN [i \in 1..lens[k] |-> Point(times[off + i], off + i)]]]

AllPoints(g) == Flatten(Flatten(g))

----------------------------------------------------------------------------
(* find_time_errors (lines 51-67) *)

ReportLine(t, i) == [kind |-> "time_error", time |-> t, index |-> i, indices |-> <<>>]
RemovingLine(te) == [kind |-> "removing", time |-> None, index |-> 0, indices |-> te]

RECURSIVE WalkSegment_Seen(_, _, _, _)
\* variant of WalkSegment: a point is flagged when any earlier point of
\* the segment has its timestamp
WalkSegment_Seen(points, i, last_time, time_errors) ==
    IF i >= Len(points) THEN time_errors
    ELSE LET p == points[i + 1]
         IN WalkSegment_Seen(points, i + 1, p.time,
                IF \E j \in 1..i : points[j].time = p.time
                THEN Append(time_errors, i) ELSE time_errors)

RECURSIVE WalkSegment(_, _, _, _)
\* the loop of lines 56-61 from index i on: the 0-based indices flagged
WalkSegment(points, i, last_time, time_errors) ==
    IF i >= Len(points) THEN time_errors
    ELSE LET p == points[i + 1]
         IN WalkSegment(points, i + 1, p.time,
                IF p.time = last_time
                THEN Append(time_errors, i) ELSE time_errors)

\* time_errors of one segment at the end of the loop (lines 54-61)
TimeErrors(points) == WalkSegment(points, 0, Sentinel, <<>>)

\* variant of DelAt: the point before index i is deleted
DelAt_Before(points, i) ==
    SubSeq(points, 1, i - 1) \o SubSeq(points, i + 1, Len(points))
\* del trkseg.points[i] (line 67), i a 0-based index of the list; the
\* indices of lines 66-67 are inside the list, taken in descending order
DelAt(points, i) ==
    SubSeq(points, 1, i) \o SubSeq(points, i + 2, Len(points))

RECURSIVE DeleteAll(_, _)
\* the loop of lines 66-67 over the indices idxs, in the order given
DeleteAll(points, idxs) ==
    IF idxs = <<>> THEN points
    ELSE DeleteAll(DelAt(points, Head(idxs)), Tail(idxs))

\* variant of SegmentAfter: the points are deleted whatever remove is
SegmentAfter_Always(points, rm) ==
    LET te == TimeErrors(points)
    IN IF te # <<>> THEN DeleteAll(points, Reverse(te)) ELSE points
\* the point list of a segment after lines 54-67
SegmentAfter(points, rm) ==
    LET te == TimeErrors(points)
    IN IF te # <<>> /\ rm THEN DeleteAll(points, Reverse(te)) ELSE points

\* what lines 59 and 64 print for one segment
SegmentOutput(points, rm) ==
    LET te == TimeErrors(points)
    IN [k \in 1..Len(te) |-> ReportLine(points[te[k] + 1].time, te[k])]
       \o (IF te # <<>> /\ rm THEN <<RemovingLine(te)>> ELSE <<>>)

\* the track structure after find_time_errors(gpx, remove)
FindTimeErrors(g, rm) ==
    [t \in 1..Len(g) |-> [s \in 1..Len(g[t]) |-> SegmentAfter(g[t][s], rm)]]

\* everything find_time_errors(gpx, remove) prints, in order
FindTimeErrorsOutput(g, rm) ==
    Flatten(Flatten(
        [t \in 1..Len(g) |-> [s \in 1..Len(g[t]) |-> SegmentOutput(g[t][s], rm)]]))

----------------------------------------------------------------------------
(* overlayGPX (lines 69-86) *)

\* zoom argument of the call of line 161
Zoom == 14

NoMap == [location |-> <<>>, zoom_start |-> 0, polyline |-> <<>>]

\* the list built by lines 76-80
OverlayPoints(g) ==
    LET ps == AllPoints(g)
    IN [k \in 1..Len(ps) |-> <<ps[k].latitude, ps[k].longitude>>]

\* sum(...)/len(points) of lines 81-82, kept as the fraction num/den
Mean(points, c) ==
    [num |-> SumTo([k \in 1..Len(points) |-> points[k][c]], Len(points)),
     den |-> Len(points)]

\* line 81 divides by len(points): ZeroDivisionError when there is no point
OverlayRaises(g) == Len(OverlayPoints(g)) = 0

\* the map of lines 83-86, for a gpx with at least one point
OverlayGPX(g, zoom) ==
    LET points == OverlayPoints(g)
    IN [location |-> <<Mean(points, 1), Mean(points, 2)>>,
        zoom_start |-> zoom,
        polyline |-> points]

----------------------------------------------------------------------------
(* File names (lines 99-105, 113, 162).  Character codes: "." 46, "1" 49,  *)
(* "2" 50, "4" 52, "G" 71, "X" 88, "_" 95, "a" 97, "h" 104, "l" 108,       *)
(* "m" 109, "p" 112, "t" 116, "x" 120.                                     *)

\* ".mp4", the tail the pattern '*.mp4' of line 99 asks for
Ext == <<46, 109, 112, 52>>
\* "_map.html" (line 162)
MapSuffix == <<95, 109, 97, 112, 46, 104, 116, 109, 108>>
\* the width of the segment prefix: fn[4:] and fn[:4] (line 102)
PrefixLen == 4

\* the names a directory may hold: "GX1ab.mp4" with a among ".", "1", "2"
\* and b among "1", "2" (segment prefix "GX1a", video id "b"), "1.mp4"
\* and "GX111.txt"
FileNames ==
    {<<71, 88, 49, a, b>> \o Ext : a \in {46, 49, 50}, b \in {49, 50}}
    \cup {<<49>> \o Ext, <<71, 88, 49, 49, 49, 46, 116, 120, 116>>}

\* the directory listings: distinct names, in any order
Listings ==
    UNION {{f \in [1..n -> FileNames] :
               \A i, j \in 1..n : i # j => f[i] # f[j]} : n \in 0..MaxFiles}

\* fnmatch of one name against '*.mp4' (line 99)
MatchesMp4(fn) ==
    Len(fn) >= Len(Ext) /\ SubSeq(fn, Len(fn) - Len(Ext) + 1, Len(fn)) = Ext

RECURSIVE Filter(_)
\* fnmatch.filter(os.listdir(indir), '*.mp4') (line 99): listing order kept
Filter(names) ==
    IF names = <<>> THEN <<>>
    ELSE (IF MatchesMp4(Head(names)) THEN <<Head(names)>> ELSE <<>>)
         \o Filter(Tail(names))

Min(a, b) == IF a <= b THEN a ELSE b

\* variant of VidSeg: the two slices in the other order
VidSeg_Swapped(fn) ==
    <<SubSeq(fn, 1, Min(PrefixLen, Len(fn))), SubSeq(fn, PrefixLen + 1, Len(fn))>>
\* (fn[4:], fn[:4]) (line 102)
VidSeg(fn) ==
    <<SubSeq(fn, PrefixLen + 1, Len(fn)), SubSeq(fn, 1, Min(PrefixLen, Len(fn)))>>

RECURSIVE StrLess(_, _)
\* a < b of two Python strings: by code point, a proper prefix first
StrLess(a, b) ==
    IF b = <<>> THEN FALSE
    ELSE IF a = <<>> THEN TRUE
    ELSE IF Head(a) # Head(b) THEN Head(a) < Head(b)
    ELSE StrLess(Tail(a), Tail(b))

\* x < y of two Python pairs of strings
PairLess(x, y) == StrLess(x[1], y[1]) \/ (x[1] = y[1] /\ StrLess(x[2], y[2]))

RECURSIVE Insert(_, _)
\* x put into the ascending list s, after the elements not greater than x
Insert(x, s) ==
    IF s = <<>> THEN <<x>>
    ELSE IF PairLess(x, Head(s)) THEN <<x>> \o s
    ELSE <<Head(s)>> \o Insert(x, Tail(s))

RECURSIVE SortPairs(_)
\* vidsegs.sort() (line 104): ascending and stable
SortPairs(s) ==
    IF s = <<>> THEN <<>>
    ELSE Insert(s[Len(s)], SortPairs(SubSeq(s, 1, Len(s) - 1)))

\* lines 99-105: the list main iterates over
ProcessingOrder(names) ==
    LET matched == Filter(names)
        vidsegs == SortPairs([k \in 1..Len(matched) |-> VidSeg(matched[k])])
    IN [k \in 1..Len(vidsegs) |-> vidsegs[k][2] \o vidsegs[k][1]]

RECURSIVE SplitFirst(_)
\* fn.split('.')[0] (line 113): the text before the first "."
SplitFirst(fn) ==
    IF fn = <<>> \/ Head(fn) = 46 THEN <<>>
    ELSE <<Head(fn)>> \o SplitFirst(Tail(fn))

\* basename+'_map.html' (line 162); outdir is the same for every file
MapFileName(fn) == SplitFirst(fn) \o MapSuffix

\* the output directory after map_obj.save(outfile=map_fn) (line 164):
\* a file of that name is replaced
Save(dir, name, source) ==
    {e \in dir : e.name # name} \cup {[name |-> name, source |-> source]}

----------------------------------------------------------------------------
(* main (lines 88-165) *)

Event(fn, stage, ok) == [file |-> fn, stage |-> stage, ok |-> ok]

T0 == DateTime(0)
\* the track structures gpxpy.parse hands to main: no track, one empty
\* segment, one segment with a run of duplicates, two one-point segments
\* with the same timestamp
ParsedGPXs ==
    {MakeGpx(<<>>, <<>>, <<>>),
     MakeGpx(<<1>>, <<0>>, <<>>),
     MakeGpx(<<1>>, <<3>>, <<T0, T0, None>>),
     MakeGpx(<<2>>, <<1, 1>>, <<T0, T0>>)}

CurrentFile == mp4[idx]

InitMain ==
    /\ \/ argc \in {1, 2} /\ listing = <<>>
       \/ argc = 3 /\ listing \in Listings
    /\ mp4 = <<>>
    /\ idx = 0
    /\ pc = "main"
    /\ gpx0 = <<>>
    /\ gpx = <<>>
    /\ remove = TRUE
    /\ stdout = <<>>
    /\ map_obj = NoMap
    /\ outdir = {}
    /\ trace = <<>>
    /\ err = "none"

\* lines 90-91: fewer than two arguments, silent return
MainReturn ==
    /\ pc = "main"
    /\ argc < 3
    /\ pc' = "returned"
    /\ UNCHANGED <<argc, listing, mp4, idx, gpx0, gpx, remove, stdout, map_obj,
                   outdir, trace, err>>

\* lines 92-112: list, order, enter the loop (the calls of lines 96 and
\* 109 are taken to return)
MainListFiles ==
    /\ pc = "main"
    /\ argc >= 3
    /\ mp4' = ProcessingOrder(listing)
    /\ idx' = 1
    /\ pc' = IF mp4' = <<>> THEN "done" ELSE "extract"
    /\ UNCHANGED <<argc, listing, gpx0, gpx, remove, stdout, map_obj, outdir,
                   trace, err>>

\* the exception propagates out of main: the run is over
Raise(e) ==
    /\ err' = e
    /\ pc' = "crashed"

\* variant of Extract: a failed extraction skips the file and the loop
\* goes on
Extract_Isolated ==
    /\ pc = "extract"
    /\ \E ok \in BOOLEAN :
          /\ trace' = Append(trace, Event(CurrentFile, "extract", ok))
          /\ IF ok
             THEN pc' = "parse" /\ UNCHANGED <<err, idx>>
             ELSE /\ idx' = idx + 1
                  /\ pc' = IF idx < Len(mp4) THEN "extract" ELSE "done"
                  /\ UNCHANGED err
    /\ UNCHANGED <<argc, listing, mp4, gpx0, gpx, remove, stdout, map_obj,
                   outdir>>
\* lines 125-127: subprocess.run(..., check=True) returns, or raises
\* CalledProcessError when exiftool exits non-zero
Extract ==
    /\ pc = "extract"
    /\ \E ok \in BOOLEAN :
          /\ trace' = Append(trace, Event(CurrentFile, "extract", ok))
          /\ IF ok
             THEN pc' = "parse" /\ UNCHANGED err
             ELSE Raise("CalledProcessError")
    /\ UNCHANGED <<argc, listing, mp4, idx, gpx0, gpx, remove, stdout, map_obj,
                   outdir>>

\* line 131: gpxpy.parse returns a track structure, or raises on
\* malformed text
Parse ==
    /\ pc = "parse"
    /\ \/ /\ trace' = Append(trace, Event(CurrentFile, "parse", FALSE))
          /\ Raise("GPXException")
          /\ UNCHANGED <<gpx0, gpx>>
       \/ \E g \in ParsedGPXs :
             /\ trace' = Append(trace, Event(CurrentFile, "parse", TRUE))
             /\ gpx0' = g
             /\ gpx' = g
             /\ pc' = "find_time_errors"
             /\ UNCHANGED err
    /\ UNCHANGED <<argc, listing, mp4, idx, remove, stdout, map_obj, outdir>>

\* line 133: find_time_errors(gpx, remove=True)
Scan ==
    /\ pc = "find_time_errors"
    /\ trace' = Append(trace, Event(CurrentFile, "find_time_errors", TRUE))
    /\ remove' = TRUE
    /\ gpx' = FindTimeErrors(gpx, TRUE)
    /\ stdout' = FindTimeErrorsOutput(gpx, TRUE)
    /\ pc' = "smooth_horizontal"
    /\ UNCHANGED <<argc, listing, mp4, idx, gpx0, map_obj, outdir, err>>

\* variant of SmoothHorizontal: the vertical smoothing follows at once
SmoothHorizontal_ThenVertical ==
    /\ pc = "smooth_horizontal"
    /\ trace' = Append(trace, Event(CurrentFile, "smooth_horizontal", TRUE))
    /\ pc' = "smooth_vertical"
    /\ UNCHANGED <<argc, listing, mp4, idx, gpx0, gpx, remove, stdout, map_obj,
                   outdir, err>>
\* line 139: gpx.smooth(vertical=False, horizontal=True), a call into gpxpy
SmoothHorizontal ==
    /\ pc = "smooth_horizontal"
    /\ trace' = Append(trace, Event(CurrentFile, "smooth_horizontal", TRUE))
    /\ pc' = "add_elevations"
    /\ UNCHANGED <<argc, listing, mp4, idx, gpx0, gpx, remove, stdout, map_obj,
                   outdir, err>>

\* line 142: elevation_data.add_elevations(gpx, only_missing=False,
\* smooth=True), a call into srtm
AddElevations ==
    /\ pc = "add_elevations"
    /\ trace' = Append(trace, Event(CurrentFile, "add_elevations", TRUE))
    /\ pc' = "smooth_vertical"
    /\ UNCHANGED <<argc, listing, mp4, idx, gpx0, gpx, remove, stdout, map_obj,
                   outdir, err>>

\* line 145: gpx.smooth(vertical=True, horizontal=False), a call into gpxpy
SmoothVertical ==
    /\ pc = "smooth_vertical"
    /\ trace' = Append(trace, Event(CurrentFile, "smooth_vertical", TRUE))
    /\ pc' = "stats"
    /\ UNCHANGED <<argc, listing, mp4, idx, gpx0, gpx, remove, stdout, map_obj,
                   outdir, err>>

\* lines 156-159: get_uphill_downhill and get_moving_data, printed
Stats ==
    /\ pc = "stats"
    /\ trace' = Append(trace, Event(CurrentFile, "stats", TRUE))
    /\ pc' = "render"
    /\ UNCHANGED <<argc, listing, mp4, idx, gpx0, gpx, remove, stdout, map_obj,
                   outdir, err>>

\* lines 161-165: overlayGPX, save, next file
RenderAndSave ==
    /\ pc = "render"
    /\ IF OverlayRaises(gpx)
       THEN /\ trace' = Append(trace, Event(CurrentFile, "render", FALSE))
            /\ Raise("ZeroDivisionError")
            /\ UNCHANGED <<map_obj, outdir, idx>>
       ELSE /\ trace' = Append(trace, Event(CurrentFile, "render", TRUE))
            /\ map_obj' = OverlayGPX(gpx, Zoom)
            /\ outdir' = Save(outdir, MapFileName(CurrentFile), CurrentFile)
            /\ idx' = idx + 1
            /\ pc' = IF idx < Len(mp4) THEN "extract" ELSE "done"
            /\ UNCHANGED err
    /\ UNCHANGED <<argc, listing, mp4, gpx0, gpx, remove, stdout>>

Next ==
    \/ MainReturn
    \/ MainListFiles
    \/ Extract
    \/ Parse
    \/ Scan
    \/ SmoothHorizontal
    \/ AddElevations
    \/ SmoothVertical
    \/ Stats
    \/ RenderAndSave

\* a run of main
Spec == InitMain /\ [][Next]_vars

----------------------------------------------------------------------------
(* A direct call of find_time_errors, on any track structure and with     *)
(* either value of remove                                                 *)

InitScan ==
    /\ argc = 0
    /\ listing = <<>>
    /\ mp4 = <<>>
    /\ idx = 0
    /\ pc = "call"
    /\ \E nt \in 0..MaxTrks :
          \E sc \in Compositions(nt, MaxSegs) :
             \E lens \in Compositions(SumTo(sc, nt), MaxPts) :
                \E times \in [1..SumTo(lens, Len(lens)) -> TimeVals] :
                   gpx0 = MakeGpx(sc, lens, times)
    /\ gpx = gpx0
    /\ remove \in BOOLEAN
    /\ stdout = <<>>
    /\ map_obj = NoMap
    /\ outdir = {}
    /\ trace = <<>>
    /\ err = "none"

\* find_time_errors(gpx, remove)
CallFindTimeErrors ==
    /\ pc = "call"
    /\ gpx' = FindTimeErrors(gpx, remove)
    /\ stdout' = FindTimeErrorsOutput(gpx, remove)
    /\ pc' = "find_time_errors_returned"
    /\ UNCHANGED <<argc, listing, mp4, idx, gpx0, remove, map_obj, outdir,
                   trace, err>>

NextScan == CallFindTimeErrors

SpecScan == InitScan /\ [][NextScan]_vars

----------------------------------------------------------------------------
(* Claims about find_time_errors, checked under SpecScan *)

Returned == pc = "find_time_errors_returned"

\* the segments of a track structure as (track, segment) positions
SegIds(g) == UNION {{<<t, s>> : s \in 1..Len(g[t])} : t \in 1..Len(g)}

\* 1-based positions of a point list whose timestamp equals that of the
\* point just before
Flagged(points) ==
    {i \in 2..Len(points) : points[i].time = points[i - 1].time}

\* the single-pass filter: the points at the positions in keep, in order
Keep(points, keep) ==
    [k \in 1..Cardinality(keep) |->
        points[CHOOSE i \in keep : Cardinality({j \in keep : j <= i}) = k]]

SameShape(g, h) ==
    /\ Len(g) = Len(h)
    /\ \A t \in 1..Len(g) : Len(g[t]) = Len(h[t])

\* C1: after find_time_errors(gpx, remove=True) no two adjacent points of
\* any segment of any track have equal timestamps.
C1_NoAdjacentDuplicates ==
    (Returned /\ remove) =>
        \A t \in 1..Len(gpx) : \A s \in 1..Len(gpx[t]) :
            \A i \in 1..(Len(gpx[t][s]) - 1) :
                gpx[t][s][i].time # gpx[t][s][i + 1].time

\* a segment of the input held a run of three equal timestamps, and the
\* call with removal has returned
C1_Witness ==
    /\ Returned /\ remove
    /\ \E id \in SegIds(gpx0) :
          LET seg == gpx0[id[1]][id[2]]
          IN \E i \in 1..(Len(seg) - 2) :
                seg[i].time = seg[i + 1].time /\ seg[i + 1].time = seg[i + 2].time
    /\ gpx # gpx0

\* C2: after removal every segment is the single-pass filter of the
\* original segment that drops exactly the flagged positions; of a run of
\* equal adjacent timestamps only the first point survives.
C2_SinglePassFilter ==
    (Returned /\ remove) =>
        /\ SameShape(gpx, gpx0)
        /\ \A id \in SegIds(gpx0) :
              LET seg == gpx0[id[1]][id[2]]
              IN gpx[id[1]][id[2]] = Keep(seg, (1..Len(seg)) \ Flagged(seg))

\* a segment [t, t, t, u] of the input became [t, u]: its first and its
\* fourth point
C2_Witness ==
    /\ Returned /\ remove
    /\ \E id \in SegIds(gpx0) :
          LET seg == gpx0[id[1]][id[2]]
          IN /\ Len(seg) = 4
             /\ Flagged(seg) = {2, 3}
             /\ gpx[id[1]][id[2]] = <<seg[1], seg[4]>>

\* C3: a segment without two adjacent equal timestamps is left as it was,
\* and every error reported is an adjacent repeat of some segment (so none
\* is reported for such a segment, non-adjacent repeats included).
C3_CleanSegmentUntouched ==
    Returned =>
        /\ SameShape(gpx, gpx0)
        /\ \A id \in SegIds(gpx0) :
              Flagged(gpx0[id[1]][id[2]]) = {} =>
                  gpx[id[1]][id[2]] = gpx0[id[1]][id[2]]
        /\ \A n \in 1..Len(stdout) :
              stdout[n].kind = "time_error" =>
                  \E id \in SegIds(gpx0) :
                     LET seg == gpx0[id[1]][id[2]]
                     IN /\ stdout[n].index + 1 \in Flagged(seg)
                        /\ seg[stdout[n].index + 1].time = stdout[n].time

\* the input is one segment [t, u, t] with t # u; removal was asked for,
\* nothing was reported and nothing removed
C3_Witness ==
    /\ Returned /\ remove
    /\ Len(gpx0) = 1 /\ Len(gpx0[1]) = 1 /\ Len(gpx0[1][1]) = 3
    /\ gpx0[1][1][1].time = gpx0[1][1][3].time
    /\ gpx0[1][1][1].time # gpx0[1][1][2].time
    /\ gpx = gpx0
    /\ stdout = <<>>

\* the report lines of one segment as the claim has them: one per flagged
\* position, in index order, with the 0-based index
ExpectedReports(points) ==
    LET fl == Flagged(points)
        ix == Keep([i \in 1..Len(points) |-> i], fl)
    IN [k \in 1..Len(ix) |-> ReportLine(points[ix[k]].time, ix[k] - 1)]

\* C4: without the removal flag every adjacent duplicate is reported and
\* no point list changes.
C4_ReportOnly ==
    (Returned /\ ~remove) =>
        /\ gpx = gpx0
        /\ stdout = Flatten(Flatten(
              [t \in 1..Len(gpx0) |->
                  [s \in 1..Len(gpx0[t]) |-> ExpectedReports(gpx0[t][s])]]))

\* a call without removal has returned, two errors were reported and the
\* duplicates are still there
C4_Witness ==
    /\ Returned /\ ~remove
    /\ Len(stdout) >= 2
    /\ \E id \in SegIds(gpx) : Flagged(gpx[id[1]][id[2]]) # {}

\* C10: the first point of a segment is never flagged, whatever its
\* timestamp (None included) and whatever the previous segment ended with:
\* a non-empty segment keeps its first point and the segments stay as many.
C10_FirstPointNeverFlagged ==
    Returned =>
        /\ SameShape(gpx, gpx0)
        /\ \A id \in SegIds(gpx0) :
              gpx0[id[1]][id[2]] # <<>> =>
                  /\ gpx[id[1]][id[2]] # <<>>
                  /\ gpx[id[1]][id[2]][1] = gpx0[id[1]][id[2]][1]
        /\ \A n \in 1..Len(stdout) :
              stdout[n].kind = "time_error" => stdout[n].index > 0

\* a segment starts with a point without timestamp, right after a segment
\* of the same track that ends with one; removal was asked for
C10_Witness ==
    /\ Returned /\ remove
    /\ \E t \in 1..Len(gpx0) :
          /\ Len(gpx0[t]) = 2
          /\ gpx0[t][1] # <<>> /\ gpx0[t][2] # <<>>
          /\ gpx0[t][1][Len(gpx0[t][1])].time = None
          /\ gpx0[t][2][1].time = None
          /\ gpx[t][2] = gpx0[t][2]

----------------------------------------------------------------------------
(* Claim about overlayGPX, checked under Spec: main hands it the track   *)
(* structure of a file whose telemetry holds no point                     *)

\* C9: overlayGPX on a track structure without points raises a named
\* precondition error, not the arithmetic error of the centroid.
C9_EmptyTrackRejected ==
    (/\ trace # <<>>
     /\ trace[Len(trace)].stage = "render"
     /\ AllPoints(gpx) = <<>>) =>
        (pc = "crashed" /\ err # "ZeroDivisionError")

----------------------------------------------------------------------------
(* Claims about main, checked under Spec *)

Listed == pc \notin {"main", "returned"}

\* the stage order of the claim
StageOrder == <<"extract", "parse", "find_time_errors", "smooth_horizontal",
                "add_elevations", "smooth_vertical", "stats", "render">>
NStages == Len(StageOrder)

\* the pair the claim orders by: (characters from position 4 on, first 4)
OrderKey(fn) == <<SubSeq(fn, 5, Len(fn)), SubSeq(fn, 1, 4)>>

Range(f) == {f[k] : k \in DOMAIN f}

\* C5: the files are processed in ascending order of (fn[4:], fn[:4]),
\* whatever the listing order, and the processed list is a permutation of
\* the names that match.
C5_ProcessingOrder ==
    Listed =>
        /\ Range(mp4) = {fn \in Range(listing) : MatchesMp4(fn)}
        /\ Len(mp4) = Cardinality(Range(mp4))
        /\ \A i, j \in 1..Len(mp4) :
              i < j => PairLess(OrderKey(mp4[i]), OrderKey(mp4[j]))
        /\ \A n \in 1..Len(trace) :
              trace[n].file = mp4[((n - 1) \div NStages) + 1]

\* "GX121.mp4", "GX112.mp4" and "GX111.mp4", listed in another order, have
\* all been processed, in the order GX111, GX121, GX112
C5_Witness ==
    /\ pc = "done"
    /\ mp4 = << <<71, 88, 49, 49, 49>> \o Ext, <<71, 88, 49, 50, 49>> \o Ext,
                <<71, 88, 49, 49, 50>> \o Ext >>
    /\ listing # mp4
    /\ Len(trace) = 3 * NStages
    /\ trace[NStages + 1].file = <<71, 88, 49, 50, 49>> \o Ext

\* C6: the stages of a file run in the order extract, parse, scan,
\* horizontal smoothing, elevation fill, vertical smoothing, statistics,
\* render-and-save, none skipped or repeated, and a file is begun only
\* when the file before it has been rendered and saved.
C6_StageOrder ==
    \A n \in 1..Len(trace) :
        /\ ((n - 1) \div NStages) + 1 <= Len(mp4)
        /\ trace[n].file = mp4[((n - 1) \div NStages) + 1]
        /\ trace[n].stage = StageOrder[((n - 1) % NStages) + 1]
        /\ n < Len(trace) => trace[n].ok

\* two files have gone through all their stages
C6_Witness ==
    /\ pc = "done"
    /\ Len(mp4) = 2
    /\ Len(trace) = 2 * NStages
    /\ \E n \in 1..Len(stdout) : stdout[n].kind = "removing"

\* C7: when the extraction or the parsing of the k-th file fails the run
\* is over: the failed stage is the last thing that happened, nothing is
\* retried, and the output directory holds the maps of files 1..k-1 and
\* nothing else.
C7_FailureEndsRun ==
    \A n \in 1..Len(trace) :
        (~trace[n].ok /\ trace[n].stage \in {"extract", "parse"}) =>
            /\ n = Len(trace)
            /\ pc = "crashed"
            /\ err \in {"CalledProcessError", "GPXException"}
            /\ trace[n].file = mp4[idx]
            /\ {e.name : e \in outdir} = {MapFileName(mp4[j]) : j \in 1..(idx - 1)}
            /\ {e.source : e \in outdir} \subseteq {mp4[j] : j \in 1..(idx - 1)}
            /\ \A m \in 1..(n - 1) : trace[m].file = trace[n].file =>
                                      trace[m].stage # trace[n].stage

\* the extraction of the second of three files failed after the first
\* file's map was written
C7_Witness ==
    /\ pc = "crashed"
    /\ err = "CalledProcessError"
    /\ Len(mp4) = 3
    /\ idx = 2
    /\ Cardinality(outdir) = 1
    /\ Len(trace) = NStages + 1

\* C8: a run in which every file is processed leaves one map per input:
\* as many output files as input files, none overwritten by another input.
C8_OneMapPerInput ==
    pc = "done" =>
        /\ Cardinality(outdir) = Len(mp4)
        /\ \A j \in 1..Len(mp4) : \E e \in outdir : e.source = mp4[j]

====
